---- MODULE Spec2Model ----
(***************************************************************************)
(* Tool-window usage analysis (src/main.py).                               *)
(*                                                                         *)
(* reconstruct_intervals folds a table of opened/closed events, grouped by *)
(* user, into a table of intervals; main derives the implicit-close        *)
(* transition counts from that table.  The model follows the control flow  *)
(* of both functions: one action per loop iteration / statement block.     *)
(***************************************************************************)
EXTENDS Integers, Sequences, FiniteSets

\* ------------------------------------------------------------------------
\* Bounds of the model
\* ------------------------------------------------------------------------
MaxTs == 1      \* timestamps are drawn from 0..MaxTs
MaxLen == 3     \* the event table has at most MaxLen rows
MaxRaw == 2     \* the raw log read by load_events has at most MaxRaw rows

Users == {1, 2}                      \* user_id values ("1", "2")
Timestamps == 0..MaxTs
RawOpenTypes == {"manual", " Auto"}  \* open_type cells of opened rows

\* ------------------------------------------------------------------------
\* Values
\* ------------------------------------------------------------------------
None == {}            \* Python None (an optional value is {} or {v})
NaN == {}             \* np.nan in a numeric column
Some(x) == {x}
Get(o) == CHOOSE x \in o : TRUE

\* `open_ts is not None`
IsNotNone_truthy(o) == o # None /\ o # Some(0)
IsNotNone(o) == o # None

\* (r.get("open_type") or "").strip().lower()
NormOpenType(raw) ==
    CASE raw = "manual" -> "manual"
      [] raw = "auto" -> "auto"
      [] raw = " Auto" -> "auto"
      [] raw = "Manual " -> "manual"
      [] raw = "popup" -> "popup"
      [] OTHER -> ""

Range(s) == {s[i] : i \in 1..Len(s)}

AppendRows_prepend(rs, emit) == emit \o rs
\* rows.append(...)
AppendRows(rs, emit) == rs \o emit

\* The rows an events table may hold: closed rows carry an empty open_type.
EventRows ==
    [user_id : Users, timestamp : Timestamps, event : {"opened"}, open_type : RawOpenTypes]
    \cup
    [user_id : Users, timestamp : Timestamps, event : {"closed"}, open_type : {""}]

EventTables == UNION {[1..n -> EventRows] : n \in 0..MaxLen}

\* Tables a caller other than load_events may pass: opened rows whose
\* open_type is missing or not recognised.
UncheckedOpenTypes == RawOpenTypes \cup {"", "popup"}
UncheckedRows ==
    EventRows \cup
    [user_id : Users, timestamp : Timestamps, event : {"opened"}, open_type : UncheckedOpenTypes]
UncheckedTables == UNION {[1..n -> UncheckedRows] : n \in 0..MaxLen}

\* ------------------------------------------------------------------------
\* load_events
\* ------------------------------------------------------------------------
\* (event, open_type) cells of a raw row: a plain open, an open in another
\* case, a close with a stray open_type, an open without open_type, an
\* unknown event
RawShapes ==
    {<<"opened", "manual">>, <<"Open", "Auto">>, <<"close", "manual">>,
     <<"opened", "">>, <<"moved", "">>}

\* rows of the raw frame; timestamp is the cell after pd.to_numeric(errors="coerce")
RawRows ==
    {[user_id |-> u, timestamp |-> t, event |-> sh[1], open_type |-> sh[2]] :
        u \in Users, t \in {Some(x) : x \in Timestamps} \cup {NaN}, sh \in RawShapes}

RawTables == UNION {[1..n -> RawRows] : n \in 0..MaxRaw}

\* str.lower()
Lower(str) ==
    CASE str = "Open" -> "open"
      [] str = "Auto" -> "auto"
      [] OTHER -> str

\* replace({"open": "opened", "close": "closed"})
ReplaceEvent(e) ==
    CASE e = "open" -> "opened"
      [] e = "close" -> "closed"
      [] OTHER -> e

\* order = {"closed": 0, "opened": 1}
LoadOrder_reversed(e) == IF e = "closed" THEN 1 ELSE 0
LoadOrder(e) == IF e = "closed" THEN 0 ELSE 1

\* sort_values(["user_id", "timestamp", "_order"]): a stable lexicographic sort
LoadKeyLess_noorder(a, b) ==
    \/ a.user_id < b.user_id
    \/ a.user_id = b.user_id /\ a.timestamp < b.timestamp
LoadKeyLess(a, b) ==
    \/ a.user_id < b.user_id
    \/ a.user_id = b.user_id /\ a.timestamp < b.timestamp
    \/ /\ a.user_id = b.user_id
       /\ a.timestamp = b.timestamp
       /\ LoadOrder(a.event) < LoadOrder(b.event)

RECURSIVE LoadInsert(_, _)
LoadInsert(h, t) ==
    IF t = <<>> THEN <<h>>
    ELSE IF LoadKeyLess(Head(t), h) THEN <<Head(t)>> \o LoadInsert(h, Tail(t))
    ELSE <<h>> \o t

RECURSIVE LoadSort(_)
LoadSort(s) == IF s = <<>> THEN <<>> ELSE LoadInsert(Head(s), LoadSort(Tail(s)))

\* dropna(subset=["timestamp"]), astype("int64"), event lower-cased and replaced
Coerced(df) ==
    LET kept == SelectSeq(df, LAMBDA x : x.timestamp # NaN)
    IN [i \in 1..Len(kept) |->
          [user_id |-> kept[i].user_id, timestamp |-> Get(kept[i].timestamp),
           event |-> ReplaceEvent(Lower(kept[i].event)), open_type |-> kept[i].open_type]]

\* rows with an unknown event are dropped; open_type of opened rows is lower-cased
ValidEvents(df) ==
    LET kept == SelectSeq(df, LAMBDA x : x.event \in {"opened", "closed"})
    IN [i \in 1..Len(kept) |->
          [user_id |-> kept[i].user_id, timestamp |-> kept[i].timestamp,
           event |-> kept[i].event,
           open_type |-> IF kept[i].event = "opened" THEN Lower(kept[i].open_type)
                         ELSE kept[i].open_type]]

\* opened rows without manual/auto are dropped; open_type of closed rows is emptied
GoodTypes(df) ==
    LET kept == SelectSeq(df, LAMBDA x :
                    ~(x.event = "opened" /\ x.open_type \notin {"manual", "auto"}))
    IN [i \in 1..Len(kept) |->
          [user_id |-> kept[i].user_id, timestamp |-> kept[i].timestamp,
           event |-> kept[i].event,
           open_type |-> IF kept[i].event = "closed" THEN "" ELSE kept[i].open_type]]

LoadEvents(df) == LoadSort(GoodTypes(ValidEvents(Coerced(df))))

\* ------------------------------------------------------------------------
\* events.groupby("user_id", sort=False)
\* ------------------------------------------------------------------------
\* group keys in order of first appearance
RECURSIVE GroupKeys(_)
GroupKeys(ev) ==
    IF ev = <<>> THEN <<>>
    ELSE LET front == SubSeq(ev, 1, Len(ev) - 1)
             k == GroupKeys(front)
             u == ev[Len(ev)].user_id
         IN IF u \in Range(k) THEN k ELSE Append(k, u)

\* positions (in table order) of the rows of one group
RECURSIVE PositionsFrom(_, _, _)
PositionsFrom(ev, u, i) ==
    IF i > Len(ev) THEN <<>>
    ELSE (IF ev[i].user_id = u THEN <<i>> ELSE <<>>) \o PositionsFrom(ev, u, i + 1)

GroupPositions_all(ev, u) == [i \in 1..Len(ev) |-> i]
\* g: the rows of events with user_id = u, in table order
GroupPositions(ev, u) == PositionsFrom(ev, u, 1)

\* ------------------------------------------------------------------------
\* rows appended by reconstruct_intervals
\* ------------------------------------------------------------------------
ImplicitRow(user, o_ts, ts, o_type) ==
    [user_id |-> user, open_ts |-> o_ts, close_ts |-> Some(ts), open_type |-> o_type,
     censored |-> FALSE, implicit_close |-> TRUE]

ExplicitRow_implicit(user, o_ts, ts, o_type) ==
    [user_id |-> user, open_ts |-> o_ts, close_ts |-> Some(ts), open_type |-> o_type,
     censored |-> FALSE, implicit_close |-> TRUE]
ExplicitRow(user, o_ts, ts, o_type) ==
    [user_id |-> user, open_ts |-> o_ts, close_ts |-> Some(ts), open_type |-> o_type,
     censored |-> FALSE, implicit_close |-> FALSE]

CensoredRow_closed(user, o_ts, o_type) ==
    [user_id |-> user, open_ts |-> o_ts, close_ts |-> Some(o_ts), open_type |-> o_type,
     censored |-> TRUE, implicit_close |-> FALSE]
CensoredRow(user, o_ts, o_type) ==
    [user_id |-> user, open_ts |-> o_ts, close_ts |-> NaN, open_type |-> o_type,
     censored |-> TRUE, implicit_close |-> FALSE]

\* ------------------------------------------------------------------------
\* the branches of the loop body: new (open_ts, open_type) and rows appended
\* ------------------------------------------------------------------------
OnOpened_keepfirst(o_ts, o_type, user, ts, ot) ==
    IF IsNotNone(o_ts)
    THEN [emit |-> <<ImplicitRow(user, Get(o_ts), ts, Get(o_type))>>,
          open_ts |-> o_ts, open_type |-> o_type]
    ELSE [emit |-> <<>>, open_ts |-> Some(ts), open_type |-> Some(ot)]
\* if ev == "opened": ...
OnOpened(o_ts, o_type, user, ts, ot) ==
    [emit |-> IF IsNotNone(o_ts)
              THEN <<ImplicitRow(user, Get(o_ts), ts, Get(o_type))>>
              ELSE <<>>,
     open_ts |-> Some(ts),
     open_type |-> Some(ot)]

OnClosed_orphan(o_ts, o_type, user, ts) ==
    IF ~IsNotNone(o_ts)
    THEN [emit |-> <<ExplicitRow(user, ts, ts, "")>>, open_ts |-> o_ts, open_type |-> o_type]
    ELSE [emit |-> <<ExplicitRow(user, Get(o_ts), ts, Get(o_type))>>,
          open_ts |-> None,
          open_type |-> None]
OnClosed_noreset(o_ts, o_type, user, ts) ==
    IF ~IsNotNone(o_ts)
    THEN [emit |-> <<>>, open_ts |-> o_ts, open_type |-> o_type]
    ELSE [emit |-> <<ExplicitRow(user, Get(o_ts), ts, Get(o_type))>>,
          open_ts |-> o_ts,
          open_type |-> o_type]
\* elif ev == "closed": ...
OnClosed(o_ts, o_type, user, ts) ==
    IF ~IsNotNone(o_ts)
    THEN [emit |-> <<>>, open_ts |-> o_ts, open_type |-> o_type]
    ELSE [emit |-> <<ExplicitRow(user, Get(o_ts), ts, Get(o_type))>>,
          open_ts |-> None,
          open_type |-> None]

AtEnd_none(o_ts, o_type, user) == <<>>
\* after the inner loop: if open_ts is not None: ...
AtEnd(o_ts, o_type, user) ==
    IF IsNotNone(o_ts) THEN <<CensoredRow(user, Get(o_ts), Get(o_type))>> ELSE <<>>

\* ------------------------------------------------------------------------
\* the tail of reconstruct_intervals: ep = pd.DataFrame(rows) and the filter
\* ------------------------------------------------------------------------
\* np.where(ep["censored"], np.nan, ep["close_ts"] - ep["open_ts"])
Duration(row) ==
    IF row.censored \/ row.close_ts = NaN THEN NaN ELSE Some(Get(row.close_ts) - row.open_ts)

Keep_positive(row) == row.duration_ms # NaN /\ Get(row.duration_ms) > 0
Keep_nonneg(row) == row.censored \/ (row.duration_ms # NaN /\ Get(row.duration_ms) >= 0)
\* (ep["censored"]) | (ep["duration_ms"] > 0); a comparison with NaN is False
Keep(row) == row.censored \/ (row.duration_ms # NaN /\ Get(row.duration_ms) > 0)

\* pd.DataFrame(rows): a RangeIndex 0..n-1, then the duration_ms column
Frame(rs) ==
    [i \in 1..Len(rs) |->
        [index |-> i - 1,
         user_id |-> rs[i].user_id, open_ts |-> rs[i].open_ts, close_ts |-> rs[i].close_ts,
         open_type |-> rs[i].open_type, censored |-> rs[i].censored,
         implicit_close |-> rs[i].implicit_close,
         duration_ms |-> Duration(rs[i])]]

PostFiltered(rs) == SelectSeq(Frame(rs), Keep)

\* ------------------------------------------------------------------------
\* main: the implicit-close transition analysis
\* ------------------------------------------------------------------------
\* complete = intervals[~censored]; complete[open_type.isin(["manual", "auto"])]
Complete(iv) == SelectSeq(iv, LAMBDA x : ~x.censored /\ x.open_type \in {"manual", "auto"})

\* sort_values(["user_id", "open_ts"]): a stable lexicographic sort
KeyLess(a, b) ==
    \/ a.user_id < b.user_id
    \/ a.user_id = b.user_id /\ a.open_ts < b.open_ts

RECURSIVE Insert(_, _)
Insert(h, t) ==
    IF t = <<>> THEN <<h>>
    ELSE IF KeyLess(Head(t), h) THEN <<Head(t)>> \o Insert(h, Tail(t))
    ELSE <<h>> \o t

RECURSIVE SortValues(_)
SortValues(s) == IF s = <<>> THEN <<>> ELSE Insert(Head(s), SortValues(Tail(s)))

\* groupby("user_id").cumcount()
CumCount(s, i) == Cardinality({j \in 1..(i - 1) : s[j].user_id = s[i].user_id})

IntervalsSorted(iv) ==
    LET s == SortValues(iv)
    IN [i \in 1..Len(s) |->
          [index |-> s[i].index, user_id |-> s[i].user_id, open_ts |-> s[i].open_ts,
           close_ts |-> s[i].close_ts, open_type |-> s[i].open_type,
           censored |-> s[i].censored, implicit_close |-> s[i].implicit_close,
           duration_ms |-> s[i].duration_ms, seq |-> CumCount(s, i)]]

\* implicit.merge(next_map, left_on=[user_id, seq_next], right_on=[user_id, seq], how="left")
RECURSIVE Merge(_, _)
Merge(implicit, srt) ==
    IF implicit = <<>> THEN <<>>
    ELSE LET p == Head(implicit)
             m == SelectSeq(srt, LAMBDA x : x.user_id = p.user_id /\ x.seq = p.seq + 1)
             joined == IF m = <<>>
                       THEN <<[user_id |-> p.user_id, seq |-> p.seq, open_type |-> p.open_type,
                               seq_next |-> p.seq + 1, next_open_type |-> NaN]>>
                       ELSE [k \in 1..Len(m) |->
                               [user_id |-> p.user_id, seq |-> p.seq, open_type |-> p.open_type,
                                seq_next |-> p.seq + 1, next_open_type |-> Some(m[k].open_type)]]
         IN joined \o Merge(Tail(implicit), srt)

NextPairs_nofilter(srt) == Merge(srt, srt)
\* implicit = intervals_sorted.loc[~censored & implicit_close], merged with next_map
NextPairs(srt) ==
    Merge(SelectSeq(srt, LAMBDA x : ~x.censored /\ x.implicit_close), srt)

\* dropna(next_open_type).value_counts([open_type, next_open_type]).pivot(...).fillna(0)
TransitionCounts(np) ==
    LET kept == SelectSeq(np, LAMBDA x : x.next_open_type # NaN)
        idx == {kept[i].open_type : i \in 1..Len(kept)}
        cols == {Get(kept[i].next_open_type) : i \in 1..Len(kept)}
    IN [c \in idx \X cols |->
          Cardinality({i \in 1..Len(kept) :
              kept[i].open_type = c[1] /\ Get(kept[i].next_open_type) = c[2]})]

\* ------------------------------------------------------------------------
\* reconstruct_intervals as a function of its argument
\* ------------------------------------------------------------------------
\* the inner loop from row k of group gp on, then the censoring block
RECURSIVE FoldGroup(_, _, _, _, _, _)
FoldGroup(ev, u, gp, k, o_ts, o_type) ==
    IF k > Len(gp) THEN AtEnd(o_ts, o_type, u)
    ELSE LET e == ev[gp[k]]
             res == IF e.event = "opened"
                    THEN OnOpened(o_ts, o_type, u, e.timestamp, NormOpenType(e.open_type))
                    ELSE OnClosed(o_ts, o_type, u, e.timestamp)
         IN res.emit \o FoldGroup(ev, u, gp, k + 1, res.open_ts, res.open_type)

\* the outer loop from group i on
RECURSIVE FoldGroups(_, _)
FoldGroups(ev, i) ==
    IF i > Len(GroupKeys(ev)) THEN <<>>
    ELSE LET u == GroupKeys(ev)[i]
         IN FoldGroup(ev, u, GroupPositions(ev, u), 1, None, None) \o FoldGroups(ev, i + 1)

ReconstructIntervals(ev) == PostFiltered(FoldGroups(ev, 1))

\* ------------------------------------------------------------------------
\* State
\* ------------------------------------------------------------------------
VARIABLES
    raw,         \* load_events: the frame read from the log (df)
    events,      \* the table handed to reconstruct_intervals
    pc,          \* control point
    gi,          \* index of the current group in GroupKeys(events)
    ri,          \* index of the next row of the current group
    open_ts,     \* local open_ts (None or a timestamp)
    open_type,   \* local open_type (None or a string)
    rows,        \* the list rows
    opener,      \* history: table position of the event that set open_ts (0: none)
    origin,      \* history: for rows[i], the table positions of the event that
                 \* opened it and of the event that closed it (0: end of group)
    ep,          \* the frame reconstruct_intervals returns (intervals in main)
    intervals_sorted,   \* main: intervals sorted by (user_id, open_ts), with seq
    next_pairs,         \* main: implicit rows left-merged with their seq + 1 row
    transition_counts   \* main: count of each (open_type, next_open_type)

vars == <<raw, events, pc, gi, ri, open_ts, open_type, rows, opener, origin, ep,
          intervals_sorted, next_pairs, transition_counts>>
main_vars == <<intervals_sorted, next_pairs, transition_counts>>

keys == GroupKeys(events)
user == keys[gi]
g == GroupPositions(events, user)
r == events[g[ri]]

\* the locals of reconstruct_intervals and main before their first statement
InitLocals ==
    /\ gi = 0
    /\ ri = 0
    /\ open_ts = None
    /\ open_type = None
    /\ rows = <<>>
    /\ opener = 0
    /\ origin = <<>>
    /\ ep = <<>>
    /\ intervals_sorted = <<>>
    /\ next_pairs = <<>>
    /\ transition_counts = <<>>

\* reconstruct_intervals called on any table of well-typed events
Init ==
    /\ raw = <<>>
    /\ events \in EventTables
    /\ pc = "groupby"
    /\ InitLocals

\* reconstruct_intervals called on a table whose opened rows may lack a
\* recognised open_type
InitUnchecked ==
    /\ raw = <<>>
    /\ events \in UncheckedTables
    /\ pc = "groupby"
    /\ InitLocals

\* main: the log has been read, load_events is about to run
InitPipeline ==
    /\ raw \in RawTables
    /\ events = <<>>
    /\ pc = "load"
    /\ InitLocals

\* events = load_events(DATA_PATH)
Load ==
    /\ pc = "load"
    /\ events' = LoadEvents(raw)
    /\ pc' = "groupby"
    /\ UNCHANGED <<raw, gi, ri, open_ts, open_type, rows, opener, origin, ep, main_vars>>

\* for user, g in events.groupby(...): open_ts = None; open_type = None
NextGroup ==
    /\ pc = "groupby"
    /\ gi < Len(keys)
    /\ gi' = gi + 1
    /\ ri' = 1
    /\ open_ts' = None
    /\ open_type' = None
    /\ opener' = 0
    /\ pc' = "iterrows"
    /\ UNCHANGED <<raw, events, rows, origin, ep, main_vars>>

\* one iteration of `for _, r in g.iterrows()` taking the "opened" branch
Opened ==
    /\ pc = "iterrows"
    /\ ri <= Len(g)
    /\ r.event = "opened"
    /\ LET res == OnOpened(open_ts, open_type, user, r.timestamp, NormOpenType(r.open_type))
       IN /\ rows' = AppendRows(rows, res.emit)
          /\ origin' = origin \o [i \in 1..Len(res.emit) |-> [opener |-> opener, closer |-> g[ri]]]
          /\ open_ts' = res.open_ts
          /\ open_type' = res.open_type
    /\ opener' = g[ri]
    /\ ri' = ri + 1
    /\ UNCHANGED <<raw, events, pc, gi, ep, main_vars>>

\* one iteration of `for _, r in g.iterrows()` taking the "closed" branch
Closed ==
    /\ pc = "iterrows"
    /\ ri <= Len(g)
    /\ r.event = "closed"
    /\ LET res == OnClosed(open_ts, open_type, user, r.timestamp)
       IN /\ rows' = AppendRows(rows, res.emit)
          /\ origin' = origin \o [i \in 1..Len(res.emit) |-> [opener |-> opener, closer |-> g[ri]]]
          /\ open_ts' = res.open_ts
          /\ open_type' = res.open_type
          /\ opener' = IF res.emit = <<>> THEN opener ELSE 0
    /\ ri' = ri + 1
    /\ UNCHANGED <<raw, events, pc, gi, ep, main_vars>>

\* the inner loop is exhausted: the censoring block, then back to the outer loop
EndOfGroup ==
    /\ pc = "iterrows"
    /\ ri > Len(g)
    /\ LET emit == AtEnd(open_ts, open_type, user)
       IN /\ rows' = AppendRows(rows, emit)
          /\ origin' = origin \o [i \in 1..Len(emit) |-> [opener |-> opener, closer |-> 0]]
    /\ pc' = "groupby"
    /\ UNCHANGED <<raw, events, gi, ri, open_ts, open_type, opener, ep, main_vars>>

\* both loops are exhausted: build the frame, add duration_ms, filter, return
PostFilter ==
    /\ pc = "groupby"
    /\ gi = Len(keys)
    /\ ep' = PostFiltered(rows)
    /\ pc' = "returned"
    /\ UNCHANGED <<raw, events, gi, ri, open_ts, open_type, rows, opener, origin, main_vars>>

\* main, intervals['censored'] on the column-less frame of an empty rows list
MainKeyError ==
    /\ pc = "returned"
    /\ rows = <<>>
    /\ pc' = "KeyError"
    /\ UNCHANGED <<raw, events, gi, ri, open_ts, open_type, rows, opener, origin, ep, main_vars>>

\* main, `if complete.empty: return`
MainNoComplete ==
    /\ pc = "returned"
    /\ rows # <<>>
    /\ Complete(ep) = <<>>
    /\ pc' = "exit"
    /\ UNCHANGED <<raw, events, gi, ri, open_ts, open_type, rows, opener, origin, ep, main_vars>>

\* main, from intervals_sorted to transition_counts
TransitionAnalysis ==
    /\ pc = "returned"
    /\ rows # <<>>
    /\ Complete(ep) # <<>>
    /\ intervals_sorted' = IntervalsSorted(ep)
    /\ next_pairs' = NextPairs(intervals_sorted')
    /\ transition_counts' = TransitionCounts(next_pairs')
    /\ pc' = "done"
    /\ UNCHANGED <<raw, events, gi, ri, open_ts, open_type, rows, opener, origin, ep>>

Next ==
    \/ NextGroup
    \/ Opened
    \/ Closed
    \/ EndOfGroup
    \/ PostFilter
    \/ MainKeyError
    \/ MainNoComplete
    \/ TransitionAnalysis

Spec == Init /\ [][Next]_vars

SpecUnchecked == InitUnchecked /\ [][Next]_vars

NextPipeline ==
    \/ Load
    \/ NextGroup
    \/ Opened
    \/ Closed
    \/ EndOfGroup
    \/ PostFilter
    \/ MainKeyError
    \/ MainNoComplete
    \/ TransitionAnalysis

SpecPipeline == InitPipeline /\ [][NextPipeline]_vars

TypeOK ==
    /\ pc \in {"load", "groupby", "iterrows", "returned", "KeyError", "exit", "done"}
    /\ Len(rows) = Len(origin)
    /\ (open_ts = None) = (open_type = None)

\* ------------------------------------------------------------------------
\* Properties
\* ------------------------------------------------------------------------
Returned == pc \in {"returned", "KeyError", "exit", "done"}
Last(s) == s[Len(s)]
AtRow == pc = "iterrows" /\ ri <= Len(g)
\* the row the inner loop processed last
JustProcessed == pc = "iterrows" /\ ri > 1
prev == events[g[ri - 1]]

\* C1: processing Opened(ot2) at ts in state Open(ot) holding open_ts appends
\* exactly the interval {open_ts, close_ts = ts, ot, censored = false,
\* implicit_close = true} and leaves the state Open(ot2) with open_ts = ts;
\* in state Closed it appends nothing and leaves the state Open(ot) at ts.
C1_OpenedStep ==
    [][(AtRow /\ r.event = "opened") =>
         /\ open_ts' = Some(r.timestamp)
         /\ open_type' = Some(NormOpenType(r.open_type))
         /\ IF open_ts # None
            THEN rows' = Append(rows,
                     [user_id |-> user, open_ts |-> Get(open_ts),
                      close_ts |-> Some(r.timestamp), open_type |-> Get(open_type),
                      censored |-> FALSE, implicit_close |-> TRUE])
            ELSE rows' = rows]_vars

C1_Witness ==
    /\ JustProcessed
    /\ prev.event = "opened"
    /\ rows # <<>>
    /\ Last(origin).closer = g[ri - 1]
    /\ Last(rows).implicit_close
    /\ Last(rows).open_ts = 0
    /\ open_ts = Some(prev.timestamp)

\* C2: in the returned table implicit_close holds exactly for the non-censored
\* intervals closed by a later Opened event of the same user; an interval
\* closed by an explicit Closed(ts) has implicit_close = false, censored =
\* false and close_ts = ts, and after processing that Closed event the state
\* is Closed again.
C2_ImplicitCloseExact ==
    /\ Returned =>
         \A i \in 1..Len(ep) :
            LET o == origin[ep[i].index + 1]
            IN /\ ep[i].implicit_close <=>
                    /\ ~ep[i].censored
                    /\ o.closer > o.opener
                    /\ events[o.closer].event = "opened"
                    /\ events[o.closer].user_id = ep[i].user_id
               /\ (o.closer # 0 /\ events[o.closer].event = "closed") =>
                    /\ ~ep[i].implicit_close
                    /\ ~ep[i].censored
                    /\ ep[i].close_ts = Some(events[o.closer].timestamp)
    /\ (JustProcessed /\ prev.event = "closed") => (open_ts = None /\ open_type = None)

C2_Witness ==
    /\ Returned
    /\ \E i, j \in 1..Len(ep) :
          /\ ep[i].implicit_close
          /\ events[origin[ep[i].index + 1].closer].event = "opened"
          /\ ep[i].close_ts = Some(events[origin[ep[i].index + 1].closer].timestamp)
          /\ ~ep[j].implicit_close

\* C3: a Closed event processed in state Closed appends nothing and leaves
\* open_ts, open_type and rows unchanged; a user whose events are all Closed
\* has no interval, neither emitted nor returned.
C3_OrphanClose ==
    /\ [][(AtRow /\ r.event = "closed" /\ open_ts = None) =>
            (rows' = rows /\ open_ts' = open_ts /\ open_type' = open_type)]_vars
    /\ [](Returned =>
            \A u \in Range(keys) :
               (\A k \in Range(GroupPositions(events, u)) : events[k].event = "closed") =>
                  /\ \A i \in 1..Len(rows) : rows[i].user_id # u
                  /\ \A i \in 1..Len(ep) : ep[i].user_id # u)

C3_Witness ==
    /\ JustProcessed
    /\ ri = 2
    /\ prev.event = "closed"
    /\ open_ts = None
    /\ rows # <<>>

\* C4: a user whose state is Open(ot) with open_ts after the user's last
\* event gets the interval {open_ts, close_ts absent, ot, censored = true,
\* implicit_close = false}; rows already emitted stay, and the duration
\* filter keeps every censored row in the returned table.
C4_CensoredKept ==
    /\ []((pc = "groupby" /\ gi >= 1 /\ open_ts # None) =>
            /\ rows # <<>>
            /\ Last(rows) = [user_id |-> keys[gi], open_ts |-> Get(open_ts),
                             close_ts |-> NaN, open_type |-> Get(open_type),
                             censored |-> TRUE, implicit_close |-> FALSE])
    /\ [][\A i \in 1..Len(rows) : Len(rows') >= i /\ rows'[i] = rows[i]]_vars
    /\ [](Returned =>
            \A k \in 1..Len(rows) :
               rows[k].censored =>
                  \E i \in 1..Len(ep) :
                     /\ ep[i].index = k - 1
                     /\ ep[i].user_id = rows[k].user_id
                     /\ ep[i].open_ts = rows[k].open_ts
                     /\ ep[i].open_type = rows[k].open_type
                     /\ ep[i].close_ts = NaN
                     /\ ep[i].censored
                     /\ ~ep[i].implicit_close)

C4_Witness ==
    /\ Returned
    /\ Len(ep) < Len(rows)
    /\ \E i \in 1..Len(ep) : ep[i].censored /\ ep[i].open_ts = 1

\* C5: every non-censored interval of the returned table has
\* duration_ms = close_ts - open_ts > 0, whatever the order of the input;
\* every emitted non-censored interval with close_ts <= open_ts is dropped.
C5_PositiveDuration ==
    Returned =>
       /\ \A i \in 1..Len(ep) :
             ~ep[i].censored =>
                /\ ep[i].close_ts # NaN
                /\ ep[i].duration_ms = Some(Get(ep[i].close_ts) - ep[i].open_ts)
                /\ Get(ep[i].duration_ms) > 0
       /\ \A k \in 1..Len(rows) :
             (~rows[k].censored /\ Get(rows[k].close_ts) <= rows[k].open_ts) =>
                \A i \in 1..Len(ep) : ep[i].index # k - 1

C5_Witness ==
    /\ Returned
    /\ \E i \in 1..Len(ep) : ~ep[i].censored /\ ep[i].duration_ms = Some(1)
    /\ \E k \in 1..Len(rows) :
          /\ ~rows[k].censored
          /\ Get(rows[k].close_ts) <= rows[k].open_ts
          /\ \A i \in 1..Len(ep) : ep[i].index # k - 1

\* C6: in the returned table censored = true, close_ts absent and
\* duration_ms absent are equivalent.
C6_AbsentTogether ==
    Returned =>
       \A i \in 1..Len(ep) :
          /\ ep[i].censored <=> (ep[i].close_ts = NaN)
          /\ (ep[i].close_ts = NaN) <=> (ep[i].duration_ms = NaN)

C6_Witness ==
    /\ Returned
    /\ \E i, j \in 1..Len(ep) :
          /\ ep[i].censored /\ ep[i].close_ts = NaN /\ ep[i].duration_ms = NaN
          /\ ~ep[j].censored /\ ep[j].close_ts # NaN /\ ep[j].duration_ms # NaN

\* C7: the returned table has at most one censored interval per user; if
\* there is one it is the last interval emitted for the user (and the user's
\* last row of the table) and its open_ts is the timestamp of the user's last
\* Opened event.
OpenedPositions(u) == {k \in Range(GroupPositions(events, u)) : events[k].event = "opened"}
LastOpened(u) == CHOOSE k \in OpenedPositions(u) : \A m \in OpenedPositions(u) : m <= k

C7_OneCensoredLast ==
    Returned =>
       \A u \in Users :
          LET cens == {i \in 1..Len(ep) : ep[i].user_id = u /\ ep[i].censored}
          IN /\ Cardinality(cens) <= 1
             /\ \A i \in cens :
                   /\ \A j \in 1..Len(ep) : ep[j].user_id = u => j <= i
                   /\ \A k \in 1..Len(rows) : rows[k].user_id = u => k <= ep[i].index + 1
                   /\ OpenedPositions(u) # {}
                   /\ ep[i].open_ts = events[LastOpened(u)].timestamp

C7_Witness ==
    /\ Returned
    /\ \E i, j \in 1..Len(ep) :
          /\ ep[i].censored /\ ~ep[j].censored
          /\ ep[i].user_id = ep[j].user_id
          /\ ep[i].open_ts # ep[j].open_ts
          /\ Cardinality(OpenedPositions(ep[i].user_id)) >= 2

\* the tie-break contract on one user's rows: timestamp ascending and, at
\* equal timestamps, closed before opened
Rank(e) == IF e.event = "closed" THEN 0 ELSE 1
SortedPerUser(ev) ==
    \A u \in Users :
       LET gp == GroupPositions(ev, u)
       IN \A k \in 1..(Len(gp) - 1) :
             \/ ev[gp[k]].timestamp < ev[gp[k + 1]].timestamp
             \/ /\ ev[gp[k]].timestamp = ev[gp[k + 1]].timestamp
                /\ Rank(ev[gp[k]]) <= Rank(ev[gp[k + 1]])

\* C8: in the transition analysis (on input that satisfies the tie-break
\* contract), for every interval P of the table with implicit_close = true the
\* interval at sequence index seq + 1 of the same user is the one started by
\* the Opened event that closed P, and the pair counted for P is
\* (P.open_type, open_type of that Opened event).
C8_NextIsCloser ==
    (pc = "done" /\ SortedPerUser(events)) =>
       \A i \in 1..Len(intervals_sorted) :
          LET P == intervals_sorted[i]
              c == origin[P.index + 1].closer
              nx == {j \in 1..Len(intervals_sorted) :
                        /\ intervals_sorted[j].user_id = P.user_id
                        /\ intervals_sorted[j].seq = P.seq + 1}
          IN P.implicit_close =>
                /\ nx # {}
                /\ \A j \in nx : origin[intervals_sorted[j].index + 1].opener = c
                /\ \A k \in 1..Len(next_pairs) :
                      (next_pairs[k].user_id = P.user_id /\ next_pairs[k].seq = P.seq) =>
                         /\ next_pairs[k].open_type = P.open_type
                         /\ next_pairs[k].next_open_type = Some(NormOpenType(events[c].open_type))

\* C9: the intervals returned for a user are those reconstruct_intervals
\* returns for the user's own rows alone, however the rows of the two users
\* are interleaved in the table; a step of the inner loop changes no row of
\* another user.
StripIndex(x) ==
    [user_id |-> x.user_id, open_ts |-> x.open_ts, close_ts |-> x.close_ts,
     open_type |-> x.open_type, censored |-> x.censored,
     implicit_close |-> x.implicit_close, duration_ms |-> x.duration_ms]
UserIntervals(frame, u) ==
    LET f == SelectSeq(frame, LAMBDA x : x.user_id = u)
    IN [i \in 1..Len(f) |-> StripIndex(f[i])]
UserRows(rs, u) == SelectSeq(rs, LAMBDA x : x.user_id = u)
SubTable(ev, u) == SelectSeq(ev, LAMBDA e : e.user_id = u)

C9_Independent ==
    /\ [](Returned =>
            \A u \in Users :
               UserIntervals(ep, u) = UserIntervals(ReconstructIntervals(SubTable(events, u)), u))
    /\ [][pc = "iterrows" =>
            \A u \in Users : u # user => UserRows(rows', u) = UserRows(rows, u)]_vars

C9_Witness ==
    /\ Returned
    /\ Len(events) = 3
    /\ events[1].user_id = events[3].user_id
    /\ events[1].user_id # events[2].user_id
    /\ events[1].event = "opened"
    /\ events[2].event = "opened"
    /\ events[3].event = "closed"
    /\ Len(ep) = 2

\* C10: for input that satisfies the tie-break contract the intervals returned
\* for one user appear in ascending open_ts order, which is the order in which
\* they were emitted.
C10_AscendingOpenTs ==
    (Returned /\ SortedPerUser(events)) =>
       \A i, j \in 1..Len(ep) :
          (i < j /\ ep[i].user_id = ep[j].user_id) =>
             /\ ep[i].open_ts < ep[j].open_ts
             /\ ep[i].index < ep[j].index

C10_Witness ==
    /\ Returned
    /\ SortedPerUser(events)
    /\ \E i, j \in 1..Len(ep) :
          i < j /\ ep[i].user_id = ep[j].user_id /\ ep[i].open_ts < ep[j].open_ts

\* C11: the table load_events hands to the reconstructor is, within each
\* user, ordered by timestamp and, at equal timestamps, has every Closed before
\* every Opened; Closed rows carry an empty open_type, Opened rows manual or
\* auto.
C11_LoadedOrder ==
    pc # "load" =>
       /\ \A i, j \in 1..Len(events) :
             (i < j /\ events[i].user_id = events[j].user_id) =>
                /\ events[i].timestamp <= events[j].timestamp
                /\ (events[i].timestamp = events[j].timestamp /\ events[i].event = "opened")
                      => events[j].event = "opened"
       /\ \A i \in 1..Len(events) :
             /\ events[i].event \in {"opened", "closed"}
             /\ events[i].event = "closed" => events[i].open_type = ""
             /\ events[i].event = "opened" => events[i].open_type \in {"manual", "auto"}

C11_Witness ==
    /\ pc = "groupby"
    /\ gi = 0
    /\ Len(raw) = 2
    /\ raw[1].user_id = raw[2].user_id
    /\ raw[1].timestamp = raw[2].timestamp
    /\ raw[1].timestamp # NaN
    /\ raw[1].event = "Open"
    /\ raw[2].event = "close"
    /\ raw[2].open_type = "manual"
    /\ events = <<[user_id |-> raw[1].user_id, timestamp |-> Get(raw[1].timestamp),
                   event |-> "closed", open_type |-> ""],
                  [user_id |-> raw[1].user_id, timestamp |-> Get(raw[1].timestamp),
                   event |-> "opened", open_type |-> "auto"]>>

\* a user whose loaded events are one Opened and one Closed of equal timestamp
TiedPair(u) ==
    LET gp == GroupPositions(events, u)
    IN /\ pc # "load"
       /\ Len(gp) = 2
       /\ {events[gp[1]].event, events[gp[2]].event} = {"opened", "closed"}
       /\ events[gp[1]].timestamp = events[gp[2]].timestamp
TiedTs(u) == events[GroupPositions(events, u)[1]].timestamp
TiedType(u) ==
    LET gp == GroupPositions(events, u)
    IN IF events[gp[1]].event = "opened" THEN events[gp[1]].open_type
       ELSE events[gp[2]].open_type

\* C12 as claimed: for a user whose only events are an Opened and a Closed of
\* the same timestamp the pipeline returns no non-censored interval, because
\* the zero-duration interval of the pair is emitted and then dropped by the
\* post-filter.
C12_ZeroDurationDropped ==
    Returned =>
       \A u \in Users :
          TiedPair(u) =>
             /\ \A i \in 1..Len(ep) : ep[i].user_id = u => ep[i].censored
             /\ \E k \in 1..Len(rows) :
                   /\ rows[k].user_id = u
                   /\ ~rows[k].censored
                   /\ rows[k].close_ts = Some(rows[k].open_ts)
                   /\ \A i \in 1..Len(ep) : ep[i].index # k - 1

\* C12 amended: for such a user the pipeline returns no non-censored interval:
\* the tie-break puts the Closed first, it is discarded as a close without an
\* open, and the Opened is left as the user's only interval, censored; no
\* zero-duration interval is emitted.
C12_TiedPairCensored ==
    Returned =>
       \A u \in Users :
          TiedPair(u) =>
             /\ UserRows(rows, u) = <<CensoredRow(u, TiedTs(u), TiedType(u))>>
             /\ \A i \in 1..Len(ep) : ep[i].user_id = u => ep[i].censored
             /\ Len(UserIntervals(ep, u)) = 1

C12_Witness ==
    /\ Returned
    /\ Len(raw) = 2
    /\ raw[1].event = "opened"
    /\ raw[2].event = "close"
    /\ TiedPair(raw[1].user_id)
    /\ Len(ep) = 1
    /\ ep[1].censored

\* C13: when a user's events are not in tie-break order, reconstruct_intervals
\* either sorts them itself (it returns what it returns for the sorted table)
\* or ends in an error; it never returns a table computed from the unsorted
\* order.  (No control point of reconstruct_intervals is an error state.)
C13_SortsOrFails ==
    (pc = "returned" /\ ~SortedPerUser(events)) =>
       \A u \in Users :
          UserIntervals(ep, u) = UserIntervals(ReconstructIntervals(LoadSort(events)), u)

\* C14: an Opened event without a recognised open_type is not silently
\* defaulted: reconstruct_intervals returns no interval, emitted or retained,
\* whose open_type is outside {manual, auto}.
C14_NoDefaultedOpenType ==
    pc = "returned" =>
       /\ \A k \in 1..Len(rows) : rows[k].open_type \in {"manual", "auto"}
       /\ \A i \in 1..Len(ep) : ep[i].open_type \in {"manual", "auto"}

\* the pairs the analysis counts: merged rows that survive dropna
Counted == {k \in 1..Len(next_pairs) : next_pairs[k].next_open_type # NaN}
RowAt(u, q) ==
    CHOOSE x \in Range(intervals_sorted) : x.user_id = u /\ x.seq = q
PriorOf(k) == RowAt(next_pairs[k].user_id, next_pairs[k].seq)
NextOf(k) == RowAt(next_pairs[k].user_id, next_pairs[k].seq_next)

\* C15 as claimed: a censored interval is never the prior of a counted pair and
\* never the next of a counted pair.
C15_CensoredNeverInPair ==
    pc = "done" =>
       \A k \in Counted : ~PriorOf(k).censored /\ ~NextOf(k).censored

\* C15 amended: a censored interval is never the prior of a counted pair (the
\* prior is a non-censored interval with implicit_close = true); it can be the
\* next of a counted pair, and then it is the last interval emitted for that
\* user.
C15_CensoredNeverPrior ==
    pc = "done" =>
       \A k \in Counted :
          /\ ~PriorOf(k).censored
          /\ PriorOf(k).implicit_close
          /\ NextOf(k).censored =>
                \A i \in 1..Len(ep) :
                   ep[i].user_id = NextOf(k).user_id => ep[i].index <= NextOf(k).index

C15_Witness ==
    /\ pc = "done"
    /\ \E k \in Counted :
          /\ NextOf(k).censored
          /\ PriorOf(k).implicit_close
          /\ transition_counts[<<PriorOf(k).open_type, NextOf(k).open_type>>] = 1

RECURSIVE SumOver(_, _)
SumOver(f, S) ==
    IF S = {} THEN 0
    ELSE LET x == CHOOSE y \in S : TRUE IN f[x] + SumOver(f, S \ {x})
ImplicitRetained == {i \in 1..Len(ep) : ep[i].implicit_close}

\* each user's events are exactly Opened(manual) then a later Opened(auto)
TwoManualToAuto ==
    \A u \in Users :
       LET gp == GroupPositions(events, u)
       IN /\ Len(gp) = 2
          /\ events[gp[1]].event = "opened" /\ events[gp[2]].event = "opened"
          /\ NormOpenType(events[gp[1]].open_type) = "manual"
          /\ NormOpenType(events[gp[2]].open_type) = "auto"
          /\ events[gp[1]].timestamp < events[gp[2]].timestamp

Perms(s) ==
    LET n == Len(s)
        bij == {f \in [1..n -> 1..n] : \A a, b \in 1..n : f[a] = f[b] => a = b}
    IN {[i \in 1..n |-> s[f[i]]] : f \in bij}

\* C17: the transition counts are the same for every permutation of the rows
\* of the table reconstruct_intervals returned, because no two retained
\* intervals of one user share an open_ts.
C17_PermutationInvariant ==
    pc = "done" =>
       /\ \A q \in Perms(ep) :
             TransitionCounts(NextPairs(IntervalsSorted(q))) = transition_counts
       /\ \A i, j \in 1..Len(ep) :
             (i # j /\ ep[i].user_id = ep[j].user_id) => ep[i].open_ts # ep[j].open_ts

\* the position of the user's event that follows position k (0: none)
NextPosition(u, k) ==
    LET later == {m \in Range(GroupPositions(events, u)) : m > k}
    IN IF later = {} THEN 0 ELSE CHOOSE m \in later : \A x \in later : m <= x

\* C18: before the post-filter the number of intervals emitted for a user
\* equals the number of the user's Opened events: every Opened event starts
\* exactly one interval, which is ended once, by the user's next event (an
\* explicit Closed or the next Opened) or by the end of the stream.
C18_OneIntervalPerOpened ==
    Returned =>
       \A u \in Users :
          LET mine == {i \in 1..Len(rows) : rows[i].user_id = u}
          IN /\ Cardinality(mine) = Cardinality(OpenedPositions(u))
             /\ \A k \in OpenedPositions(u) :
                   \E i \in mine :
                      /\ origin[i].opener = k
                      /\ origin[i].closer = NextPosition(u, k)
                      /\ rows[i].open_ts = events[k].timestamp
                      /\ rows[i].censored <=> (origin[i].closer = 0)
                      /\ \A j \in mine : origin[j].opener = k => j = i

C18_Witness ==
    /\ Returned
    /\ Len(rows) = 3
    /\ \E u \in Users : Cardinality(OpenedPositions(u)) = 3
    /\ Len(ep) < 3

\* C19: for tie-break-sorted input the intervals retained for one user do not
\* overlap: of two consecutive retained intervals A, B of a user, A is not
\* censored, A.close_ts <= B.open_ts and A.open_ts < B.open_ts, and
\* A.close_ts = B.open_ts when A has implicit_close and B was started by the
\* Opened event that closed A.
C19_NoOverlap ==
    (Returned /\ SortedPerUser(events)) =>
       \A u \in Users :
          LET f == SelectSeq(ep, LAMBDA x : x.user_id = u)
          IN \A i \in 1..(Len(f) - 1) :
                /\ ~f[i].censored
                /\ f[i].close_ts # NaN
                /\ Get(f[i].close_ts) <= f[i + 1].open_ts
                /\ f[i].open_ts < f[i + 1].open_ts
                /\ (/\ f[i].implicit_close
                    /\ origin[f[i + 1].index + 1].opener = origin[f[i].index + 1].closer)
                      => f[i].close_ts = Some(f[i + 1].open_ts)

C19_Witness ==
    /\ Returned
    /\ SortedPerUser(events)
    /\ \E i, j \in 1..Len(ep) :
          /\ i < j
          /\ ep[i].user_id = ep[j].user_id
          /\ ep[i].implicit_close
          /\ origin[ep[j].index + 1].opener = origin[ep[i].index + 1].closer
          /\ ep[i].close_ts = Some(ep[j].open_ts)

====
